---- MODULE Spec2Model ----
(***************************************************************************)
(* dts-bundle-generator: the declaration selection loop of                 *)
(* generateDtsBundle (src/src/bundle-generator.ts) and the output          *)
(* assembler generateOutput (src/src/generate-output.ts).                  *)
(*                                                                         *)
(* A statement's text is a sequence of tokens (modifiers, declaration      *)
(* keyword, name); rendered output is the sequence of chunks appended to   *)
(* resultOutput, in the order the code appends them.                       *)
(***************************************************************************)
EXTENDS Integers, Sequences, FiniteSets, TLC

VARIABLES
    call,             \* which entry point runs: "bundle" or "output"
    program,          \* the type-checked program view: files, uses graph
    options,          \* GenerationOptions
    sourceFiles,      \* indices of program.files kept by the filter (l.51-68)
    pc,               \* position in generateDtsBundle / generateOutput
    fileIdx,          \* position of the outer loop (l.93) in sourceFiles
    stmtIdx,          \* position of the inner loop (l.106) in the file
    usedTypes,        \* Set<string>, in insertion order
    importedSymbols,  \* Map<string, Set<string>>, in insertion order
    nodesForOutput,   \* string[]
    resultOutput,     \* the text returned by generateDtsBundle
    error,            \* the Error thrown, if any
    disp,             \* what the loop did with each statement it reached
    params,           \* OutputParams given to generateOutput
    outOptions,       \* OutputOptions given to generateOutput
    output            \* the text returned by generateOutput

vars == <<call, program, options, sourceFiles, pc, fileIdx, stmtIdx, usedTypes,
          importedSymbols, nodesForOutput, resultOutput, error, disp,
          params, outOptions, output>>

----------------------------------------------------------------------------
(* Bounds of the explored inputs *)

NLib == 2
NTypes == 2
MaxEdges == 2

\* symbol 1 is declared in the root file, symbol 2 by the statements under
\* test, symbol 3 by a third declaration that may use them
Symbols == {1, 2, 3}
Libs == 1..NLib
TypesLibs == 1..NTypes
NoLib == 0

NameSeq == <<"A", "B", "C", "D", "E", "F">>
NameOf(s) == NameSeq[s]

----------------------------------------------------------------------------
(* Sequences helpers *)

Range(s) == {s[i] : i \in DOMAIN s}

RECURSIVE SeqOfSet(_)
SeqOfSet(S) ==
    IF S = {} THEN <<>>
    ELSE LET x == CHOOSE y \in S : \A z \in S : y <= z
         IN <<x>> \o SeqOfSet(S \ {x})

RECURSIVE IndexIn(_, _)
IndexIn(x, s) ==
    IF s = <<>> THEN 1
    ELSE IF Head(s) = x THEN 1
    ELSE 1 + IndexIn(x, Tail(s))

Contains(s, x) == \E i \in DOMAIN s : s[i] = x

\* Array.prototype.sort() on names: insertion of x after the elements not
\* greater than it
RECURSIVE InsertName(_, _)
InsertName(x, s) ==
    IF s = <<>> THEN <<x>>
    ELSE IF x < Head(s) THEN <<x>> \o s
    ELSE <<Head(s)>> \o InsertName(x, Tail(s))

\* the names as they were inserted
SortNames_asInserted(s) == s

RECURSIVE SortNames(_)
SortNames(s) ==
    IF s = <<>> THEN <<>>
    ELSE InsertName(s[Len(s)], SortNames(SubSeq(s, 1, Len(s) - 1)))

----------------------------------------------------------------------------
(* Statements and their text *)

SkippedKinds == {"ExportDeclaration", "ImportDeclaration", "ImportEqualsDeclaration"}

NamedDeclarationKinds ==
    {"InterfaceDeclaration", "ClassDeclaration", "EnumDeclaration",
     "TypeAliasDeclaration", "ModuleDeclaration", "FunctionDeclaration"}

ValueKinds ==
    {"ClassDeclaration", "EnumDeclaration", "ModuleDeclaration",
     "FunctionDeclaration", "VariableStatement"}

Kinds == NamedDeclarationKinds \cup SkippedKinds \cup {"VariableStatement", "ExportAssignment"}

\* a top-level statement: its kind, the symbols of the names it binds (one
\* for a named declaration, none when it is anonymous, one per declaration of
\* a variable statement), its modifiers (cnst: the const modifier of an enum,
\* the const keyword of a variable statement), isExportEquals, and whether a
\* JSDoc comment precedes it
Stmt(kind, syms, exp, def, decl, abs, cnst, eq, doc) ==
    [kind |-> kind, syms |-> syms, exp |-> exp, def |-> def, decl |-> decl,
     abs |-> abs, cnst |-> cnst, eq |-> eq, doc |-> doc]

Keyword(kind) ==
    CASE kind = "ClassDeclaration" -> <<"class">>
      [] kind = "EnumDeclaration" -> <<"enum">>
      [] kind = "InterfaceDeclaration" -> <<"interface">>
      [] kind = "TypeAliasDeclaration" -> <<"type">>
      [] kind = "FunctionDeclaration" -> <<"function">>
      [] kind = "ModuleDeclaration" -> <<"namespace">>
      [] kind = "VariableStatement" -> <<"var">>
      [] kind = "ExportAssignment" -> <<>>
      [] kind = "ExportDeclaration" -> <<"export", "from">>
      [] kind = "ImportDeclaration" -> <<"import", "from">>
      [] kind = "ImportEqualsDeclaration" -> <<"import", "=">>

Flag(b, tok) == IF b THEN <<tok>> ELSE <<>>

\* node.getText(): the statement from its first token, without the JSDoc
getText(node) ==
    IF node.kind = "ExportAssignment"
    THEN <<"export", IF node.eq THEN "=" ELSE "default", "expr">>
    ELSE Flag(node.exp, "export") \o Flag(node.def, "default")
         \o Flag(node.decl, "declare") \o Flag(node.abs, "abstract")
         \o Flag(node.cnst /\ node.kind = "EnumDeclaration", "const")
         \o (IF node.kind = "VariableStatement" /\ node.cnst
             THEN <<"const">> ELSE Keyword(node.kind))
         \o [i \in 1..Cardinality(node.syms) |-> NameOf(SeqOfSet(node.syms)[i])]

JSDoc == "/**"

\* the order of tokens as the strings compare (code units): punctuation,
\* upper-case names, lower-case keywords
TokenOrder ==
    <<"/**", "=", "?", "A", "B", "C", "D", "E", "F", "abstract", "class", "const",
      "declare", "default", "enum", "export", "expr", "from", "function",
      "import", "interface", "namespace", "type", "var">>

TokenRank(t) == IndexIn(t, TokenOrder)

\* a < b on strings, token by token
RECURSIVE TextLess(_, _)
TextLess(a, b) ==
    IF b = <<>> THEN FALSE
    ELSE IF a = <<>> THEN TRUE
    ELSE IF TokenRank(Head(a)) < TokenRank(Head(b)) THEN TRUE
    ELSE IF TokenRank(Head(a)) > TokenRank(Head(b)) THEN FALSE
    ELSE TextLess(Tail(a), Tail(b))

hasNodeModifier(node, modifier) ==
    CASE modifier = "export" -> node.exp
      [] modifier = "default" -> node.def
      [] modifier = "declare" -> node.decl
      [] modifier = "abstract" -> node.abs
      [] modifier = "const" -> node.cnst /\ node.kind = "EnumDeclaration"

----------------------------------------------------------------------------
(* The program view *)

\* a source file: its library name and types-library name (NoLib for null),
\* whether it is a TypeScript lib file, whether it is the root file
File(lib, typesLib, isTsLib, isRoot, statements) ==
    [lib |-> lib, typesLib |-> typesLib, isTsLib |-> isTsLib, isRoot |-> isRoot,
     statements |-> statements]

getLibraryName(file) == file.lib
getTypesLibraryName(file) == file.typesLib
isTypescriptLibFile(file) == file.isTsLib

\* every statement of the program, as <<file, index>>
StmtIds(files) ==
    UNION {{<<f, i>> : i \in DOMAIN files[f].statements} : f \in DOMAIN files}

NodeAt(id) == program.files[id[1]].statements[id[2]]

\* symbol.declarations: the statements that bind the symbol, in program order
DeclarationsOf(symbol) ==
    {id \in StmtIds(program.files) : symbol \in NodeAt(id).syms}

IdBefore(a, b) == a[1] < b[1] \/ (a[1] = b[1] /\ a[2] < b[2])

ValueDeclarationsOf(symbol) ==
    {id \in DeclarationsOf(symbol) : NodeAt(id).kind \in ValueKinds}

HasValueDeclaration(symbol) == ValueDeclarationsOf(symbol) # {}

\* symbol.valueDeclaration: the first declaration of the symbol that declares
\* a value
ValueDeclarationOf(symbol) ==
    CHOOSE id \in ValueDeclarationsOf(symbol) :
        \A other \in ValueDeclarationsOf(symbol) : other = id \/ IdBefore(id, other)

----------------------------------------------------------------------------
(* TypesUsageEvaluator: the usage graph. <<a, b>> \in program.uses when the    *)
(* declarations of symbol a reference symbol b in a type position.          *)

\* the symbols reachable from the frontier over the one-hop edges, with a
\* visited set to terminate on cycles
RECURSIVE UsedClosure(_, _)
UsedClosure(frontier, visited) ==
    IF frontier = {} THEN visited
    ELSE LET next == {e[2] : e \in {x \in program.uses : x[1] \in frontier}}
         IN UsedClosure(next \ (visited \cup frontier), visited \cup frontier)

isSymbolUsedBySymbol(symbol, by) == symbol \in UsedClosure({by}, {})

isTypeUsedBySymbol(node, by) ==
    /\ node.syms # {}
    /\ \E symbol \in node.syms : isSymbolUsedBySymbol(symbol, by)

Null == {0}

getSymbolsUsingNode(node) ==
    IF node.syms = {} THEN Null
    ELSE {e[1] : e \in {x \in program.uses : x[2] \in node.syms}}

----------------------------------------------------------------------------
(* bundle-generator.ts: helpers *)

Undefined == [def |-> FALSE, val |-> {}]
Defined(v) == [def |-> TRUE, val |-> v]

isLibraryAllowed(libraryName, allowedArray) ==
    ~allowedArray.def \/ libraryName \in allowedArray.val

\* the filter of program.getSourceFiles() (l.51-68)
KeepSourceFile(file) ==
    LET libraryName == getLibraryName(file)
        typesLibName == getTypesLibraryName(file)
    IN IF libraryName = NoLib THEN TRUE
       ELSE IF isTypescriptLibFile(file) THEN FALSE
       ELSE IF typesLibName # NoLib
            THEN isLibraryAllowed(typesLibName, options.allowedTypesLibraries)
       ELSE \/ libraryName \in options.inlinedLibraries
            \/ isLibraryAllowed(libraryName, options.importedLibraries)

RECURSIVE FilterFiles(_)
FilterFiles(n) ==
    IF n = 0 THEN <<>>
    ELSE FilterFiles(n - 1) \o
         (IF KeepSourceFile(program.files[n]) THEN <<n>> ELSE <<>>)

\* isDeclarationExported for a declaration with one name (a class, an enum,
\* one declaration of a variable statement)
isDeclarationExported(exportedSymbols, nameSyms) ==
    IF nameSyms = {} THEN FALSE
    ELSE \E rootExport \in exportedSymbols : rootExport \in nameSyms

isDeclarationFromExternalModule(id) ==
    getLibraryName(program.files[id[1]]) # NoLib

\* isNodeUsed without the isExportEquals test
isNodeUsed_anyExportAssignment(node, rootFileExports, isNodeFromRootFile) ==
    IF node.kind = "ExportAssignment"
    THEN isNodeFromRootFile
    ELSE IF node.kind \in NamedDeclarationKinds
    THEN \E rootExport \in rootFileExports : isTypeUsedBySymbol(node, rootExport)
    ELSE IF node.kind = "VariableStatement"
    THEN \E declaration \in node.syms :
            isDeclarationExported(rootFileExports, {declaration})
    ELSE FALSE

isNodeUsed(node, rootFileExports, isNodeFromRootFile) ==
    IF node.kind = "ExportAssignment"
    THEN isNodeFromRootFile /\ ~node.eq
    ELSE IF node.kind \in NamedDeclarationKinds
    THEN \E rootExport \in rootFileExports : isTypeUsedBySymbol(node, rootExport)
    ELSE IF node.kind = "VariableStatement"
    THEN \E declaration \in node.syms :
            isDeclarationExported(rootFileExports, {declaration})
    ELSE FALSE

shouldNodeBeImported(node, rootFileExports) ==
    \E symbol \in getSymbolsUsingNode(node) :
        IF ~HasValueDeclaration(symbol) /\ DeclarationsOf(symbol) = {} THEN FALSE
        ELSE IF /\ HasValueDeclaration(symbol)
                /\ isDeclarationFromExternalModule(ValueDeclarationOf(symbol))
        THEN FALSE
        ELSE IF /\ DeclarationsOf(symbol) # {}
                /\ \A d \in DeclarationsOf(symbol) : isDeclarationFromExternalModule(d)
        THEN FALSE
        ELSE \E rootSymbol \in rootFileExports : isSymbolUsedBySymbol(symbol, rootSymbol)

\* nodeText.slice('export '.length): the first seven characters are cut; they
\* are the export keyword and its space when the text starts with them
SliceExport(nodeText) ==
    IF nodeText # <<>> /\ Head(nodeText) = "export" THEN Tail(nodeText)
    ELSE <<"?">> \o (IF nodeText = <<>> THEN <<>> ELSE Tail(nodeText))

getTextAccordingExport(nodeText, isNodeExported, shouldNodeBeExported) ==
    IF shouldNodeBeExported /\ ~isNodeExported THEN <<"export">> \o nodeText
    ELSE IF isNodeExported /\ ~shouldNodeBeExported THEN SliceExport(nodeText)
    ELSE nodeText

\* a replace that removes the word whatever the replacement
RECURSIVE ReplaceFirst_removeOnly(_, _, _)
ReplaceFirst_removeOnly(nodeText, word, replacement) ==
    IF nodeText = <<>> THEN <<>>
    ELSE IF Head(nodeText) = word THEN Tail(nodeText)
    ELSE <<Head(nodeText)>> \o ReplaceFirst_removeOnly(Tail(nodeText), word, replacement)

\* nodeText.replace(/\bword\s/, replacement): the first occurrence only
RECURSIVE ReplaceFirst(_, _, _)
ReplaceFirst(nodeText, word, replacement) ==
    IF nodeText = <<>> THEN <<>>
    ELSE IF Head(nodeText) = word THEN replacement \o Tail(nodeText)
    ELSE <<Head(nodeText)>> \o ReplaceFirst(Tail(nodeText), word, replacement)

\* the indentation rewrite; a token sequence carries no indentation
spacesToTabs(text) == text

\* shouldNodeHasExportKeyword without the exception for const enums
shouldNodeHasExportKeyword_noConstEnum(node, rootFileExports) ==
    IF node.kind \in {"ClassDeclaration", "EnumDeclaration"}
    THEN isDeclarationExported(rootFileExports, node.syms)
    ELSE TRUE

\* whether the inlined statement is emitted with the export keyword (l.152-167)
shouldNodeHasExportKeyword(node, rootFileExports) ==
    IF node.kind \in {"ClassDeclaration", "EnumDeclaration"}
    THEN LET exported == isDeclarationExported(rootFileExports, node.syms)
         IN IF node.kind = "EnumDeclaration"
            THEN exported \/ hasNodeModifier(node, "const")
            ELSE exported
    ELSE TRUE

\* the text pushed to nodesForOutput for an inlined statement (l.148-188)
InlinedText(node, rootFileExports, isRootSourceFile) ==
    LET hasNodeExportKeyword ==
            node.kind = "ExportAssignment" \/ hasNodeModifier(node, "export")
        shouldExport == shouldNodeHasExportKeyword(node, rootFileExports)
        exportText == getTextAccordingExport(getText(node), hasNodeExportKeyword, shouldExport)
        defaultText ==
            IF hasNodeModifier(node, "default") /\ ~isRootSourceFile
            THEN ReplaceFirst(exportText, "default",
                              IF node.kind = "ClassDeclaration" THEN <<"declare">> ELSE <<>>)
            ELSE exportText
        docText ==
            IF shouldExport /\ node.doc THEN <<JSDoc>> \o defaultText ELSE defaultText
    IN spacesToTabs(docText)

\* one piece of rendered text
Chunk(sec, lib, form, names, text, id) ==
    [sec |-> sec, lib |-> lib, form |-> form, names |-> names, text |-> text, id |-> id]

NoId == <<0, 0>>

generateReferenceTypesDirective(libraries) ==
    LET sorted == SortNames(libraries)
    IN [i \in DOMAIN sorted |-> Chunk("reference", sorted[i], "", <<>>, <<>>, NoId)]

generateImport(libraryName, imports) ==
    Chunk("import", libraryName, "named", SortNames(imports), <<>>, NoId)

\* the entries of the import table sorted by library name (l.205-207)
RECURSIVE InsertEntry(_, _)
InsertEntry(x, s) ==
    IF s = <<>> THEN <<x>>
    ELSE IF x.lib < Head(s).lib THEN <<x>> \o s
    ELSE <<Head(s)>> \o InsertEntry(x, Tail(s))

RECURSIVE SortEntries(_)
SortEntries(s) ==
    IF s = <<>> THEN <<>>
    ELSE InsertEntry(s[Len(s)], SortEntries(SubSeq(s, 1, Len(s) - 1)))

\* nodesForOutput.sort(): by the strings
RECURSIVE InsertNode(_, _)
InsertNode(x, s) ==
    IF s = <<>> THEN <<x>>
    ELSE IF TextLess(x.text, Head(s).text) THEN <<x>> \o s
    ELSE <<Head(s)>> \o InsertNode(x, Tail(s))

RECURSIVE SortNodes(_)
SortNodes(s) ==
    IF s = <<>> THEN <<>>
    ELSE InsertNode(s[Len(s)], SortNodes(SubSeq(s, 1, Len(s) - 1)))

\* the text assembled by generateDtsBundle itself (l.196-227)
RenderBundle(types, imports, nodes, opts) ==
    LET header == IF types # <<>> THEN generateReferenceTypesDirective(types) ELSE <<>>
        sortedEntries == SortEntries(imports)
        importsArray ==
            IF imports # <<>>
            THEN [i \in DOMAIN sortedEntries |->
                    generateImport(sortedEntries[i].lib, sortedEntries[i].names)]
            ELSE <<>>
        ordered == IF opts.sortNodes THEN SortNodes(nodes) ELSE nodes
        statements ==
            [i \in DOMAIN ordered |->
                Chunk("statement", NoLib, "", <<>>, ordered[i].text, ordered[i].id)]
        umd == IF opts.umdModuleName.def
               THEN <<Chunk("umd", NoLib, "", <<>>, <<>>, NoId)>>
               ELSE <<>>
    IN header \o importsArray \o statements \o umd

----------------------------------------------------------------------------
(* generate-output.ts *)

needAddDeclareKeyword(statement, nodeText) ==
    IF /\ statement.kind = "ClassDeclaration"
       /\ nodeText # <<>> /\ Head(nodeText) \in {"class", "abstract"}
    THEN TRUE
    ELSE IF /\ statement.kind = "FunctionDeclaration"
            /\ nodeText # <<>> /\ Head(nodeText) = "function"
    THEN TRUE
    ELSE IF /\ statement.kind = "VariableStatement"
            /\ nodeText # <<>> /\ Head(nodeText) \in {"const", "let", "var"}
    THEN TRUE
    ELSE FALSE

\* s.node is the statement; s.shouldExport, s.stripDefault and s.stripConst are
\* the answers of the OutputHelpers for it
getStatementText(s) ==
    LET statement == s.node
        hasStatementExportKeyword ==
            statement.kind = "ExportAssignment" \/ hasNodeModifier(statement, "export")
        exportText ==
            getTextAccordingExport(getText(statement), hasStatementExportKeyword, s.shouldExport)
        constText ==
            IF /\ statement.kind = "EnumDeclaration"
               /\ hasNodeModifier(statement, "const")
               /\ s.stripConst
            THEN ReplaceFirst(exportText, "const", <<>>)
            ELSE exportText
        defaultText ==
            IF hasNodeModifier(statement, "default") /\ s.stripDefault
            THEN ReplaceFirst(constText, "default",
                              IF statement.kind = "ClassDeclaration" THEN <<"declare">> ELSE <<>>)
            ELSE constText
        nodeText ==
            IF needAddDeclareKeyword(statement, defaultText)
            THEN <<"declare">> \o defaultText
            ELSE defaultText
    IN [text |-> nodeText, leadingComment |-> s.shouldExport /\ statement.doc, id |-> s.id]

statementTextToString(s) ==
    IF ~s.leadingComment THEN s.text ELSE <<JSDoc>> \o s.text

\* the printer re-emits the parsed statements one by one; tokens are kept
prettifyStatementsText(statementsText) == statementsText

statementsTextToString(statements) ==
    spacesToTabs(prettifyStatementsText(
        [i \in DOMAIN statements |->
            Chunk("statement", NoLib, "", <<>>, statementTextToString(statements[i]),
                  statements[i].id)]))

\* statements.sort(compareStatementText)
RECURSIVE InsertStatement(_, _)
InsertStatement(x, s) ==
    IF s = <<>> THEN <<x>>
    ELSE IF TextLess(x.text, Head(s).text) THEN <<x>> \o s
    ELSE <<Head(s)>> \o InsertStatement(x, Tail(s))

RECURSIVE SortStatements(_)
SortStatements(s) ==
    IF s = <<>> THEN <<>>
    ELSE InsertStatement(s[Len(s)], SortStatements(SubSeq(s, 1, Len(s) - 1)))

generateImports(libraryName, imports) ==
    LET star == SortNames(imports.starImports)
        req == SortNames(imports.requireImports)
        def == SortNames(imports.defaultImports)
    IN [i \in DOMAIN star |-> Chunk("import", libraryName, "star", <<star[i]>>, <<>>, NoId)]
       \o [i \in DOMAIN req |-> Chunk("import", libraryName, "require", <<req[i]>>, <<>>, NoId)]
       \o [i \in DOMAIN def |-> Chunk("import", libraryName, "default", <<def[i]>>, <<>>, NoId)]
       \o (IF imports.namedImports # <<>>
           THEN <<Chunk("import", libraryName, "named", SortNames(imports.namedImports),
                        <<>>, NoId)>>
           ELSE <<>>)

RECURSIVE ImportsArray(_)
ImportsArray(sortedEntries) ==
    IF sortedEntries = <<>> THEN <<>>
    ELSE generateImports(Head(sortedEntries).lib, Head(sortedEntries))
         \o ImportsArray(Tail(sortedEntries))

generateOutput(p, opts) ==
    LET banner == IF ~opts.noBanner
                  THEN <<Chunk("banner", NoLib, "", <<>>, <<>>, NoId)>> ELSE <<>>
        header == IF p.typesReferences # <<>>
                  THEN generateReferenceTypesDirective(p.typesReferences) ELSE <<>>
        importsArray == IF p.imports # <<>>
                        THEN ImportsArray(SortEntries(p.imports)) ELSE <<>>
        texts == [i \in DOMAIN p.statements |-> getStatementText(p.statements[i])]
        statements == IF opts.sortStatements THEN SortStatements(texts) ELSE texts
        renamed == IF p.renamedExports # <<>>
                   THEN <<Chunk("renamed", NoLib, "", SortNames(p.renamedExports), <<>>, NoId)>>
                   ELSE <<>>
        umd == IF opts.umdModuleName.def
               THEN <<Chunk("umd", NoLib, "", <<>>, <<>>, NoId)>> ELSE <<>>
    IN banner \o header \o importsArray \o statementsTextToString(statements)
       \o renamed \o umd \o <<Chunk("marker", NoLib, "", <<>>, <<>>, NoId)>>

----------------------------------------------------------------------------
(* generateDtsBundle: the state of the run *)

NoError == [msg |-> "none", syms |-> {}, file |-> 0]

CurFileIndex == sourceFiles[fileIdx]
sourceFile == program.files[CurFileIndex]
CurId == <<CurFileIndex, stmtIdx>>
CurNode == sourceFile.statements[stmtIdx]

\* the per-file constants of the outer loop (l.98-103)
typesLibraryName == getTypesLibraryName(sourceFile)
importedLibraryName == getLibraryName(sourceFile)
shouldBeInlined ==
    importedLibraryName # NoLib /\ importedLibraryName \in options.inlinedLibraries
isAllowedAsImportedLibrary ==
    importedLibraryName # NoLib
    /\ isLibraryAllowed(importedLibraryName, options.importedLibraries)
isRootSourceFile == sourceFile.isRoot

AtStatement ==
    /\ call = "bundle"
    /\ pc = "stmts"
    /\ stmtIdx <= Len(sourceFile.statements)

\* (node as ts.DeclarationStatement).name
HasNodeIdentifier(node) == node.kind \in NamedDeclarationKinds /\ node.syms # {}

\* an add that does not look for the element
SetAdd_always(s, x) == Append(s, x)

\* Set.add
SetAdd(s, x) == IF Contains(s, x) THEN s ELSE Append(s, x)

\* importedSymbols.get / set and libraryImports.add (l.136-142)
AddImport(imports, libraryName, importName) ==
    IF \E i \in DOMAIN imports : imports[i].lib = libraryName
    THEN [i \in DOMAIN imports |->
            IF imports[i].lib = libraryName
            THEN [imports[i] EXCEPT !.names = SetAdd(@, importName)]
            ELSE imports[i]]
    ELSE Append(imports, [lib |-> libraryName, names |-> <<importName>>])

\* nodeIdentifier.getText(): names are numbered as their symbols
ImportName(node) == CHOOSE s \in node.syms : TRUE

Unchanged_inputs == UNCHANGED <<call, program, options, params, outOptions, output>>

NextStatement(d) ==
    /\ disp' = [disp EXCEPT ![CurId] = d]
    /\ stmtIdx' = stmtIdx + 1
    /\ UNCHANGED <<pc, fileIdx, sourceFiles, resultOutput, error>>
    /\ Unchanged_inputs

Throw(e) ==
    /\ pc' = "failed"
    /\ error' = e
    /\ UNCHANGED <<fileIdx, stmtIdx, sourceFiles, resultOutput, disp,
                   usedTypes, importedSymbols, nodesForOutput>>
    /\ Unchanged_inputs

----------------------------------------------------------------------------
(* generateDtsBundle: the steps *)

\* l.39-92: the options, the filtered source files, the empty accumulators
Prepare ==
    /\ call = "bundle"
    /\ pc = "start"
    /\ sourceFiles' = FilterFiles(Len(program.files))
    /\ usedTypes' = <<>>
    /\ importedSymbols' = <<>>
    /\ nodesForOutput' = <<>>
    /\ fileIdx' = 1
    /\ pc' = "files"
    /\ UNCHANGED <<stmtIdx, resultOutput, error, disp>>
    /\ Unchanged_inputs

\* l.93-104: the next source file
BeginFile ==
    /\ call = "bundle"
    /\ pc = "files"
    /\ fileIdx <= Len(sourceFiles)
    /\ stmtIdx' = 1
    /\ pc' = "stmts"
    /\ UNCHANGED <<fileIdx, sourceFiles, resultOutput, error, disp,
                   usedTypes, importedSymbols, nodesForOutput>>
    /\ Unchanged_inputs

\* l.108-110: import and export statements are skipped
SkipStatement ==
    /\ AtStatement
    /\ CurNode.kind \in SkippedKinds
    /\ NextStatement("skipped")
    /\ UNCHANGED <<usedTypes, importedSymbols, nodesForOutput>>

\* l.112-115
DropUnused ==
    /\ AtStatement
    /\ CurNode.kind \notin SkippedKinds
    /\ ~isNodeUsed(CurNode, program.rootFileExports, isRootSourceFile)
    /\ NextStatement("unused")
    /\ UNCHANGED <<usedTypes, importedSymbols, nodesForOutput>>

IsUsedStatement ==
    /\ AtStatement
    /\ CurNode.kind \notin SkippedKinds
    /\ isNodeUsed(CurNode, program.rootFileExports, isRootSourceFile)

\* l.117-124: a reference directive for the types library, and break
AddTypesReference ==
    /\ IsUsedStatement
    /\ typesLibraryName # NoLib
    /\ usedTypes' = SetAdd(usedTypes, typesLibraryName)
    /\ disp' = [disp EXCEPT ![CurId] = "reference"]
    /\ pc' = "break"
    /\ UNCHANGED <<fileIdx, stmtIdx, sourceFiles, resultOutput, error,
                   importedSymbols, nodesForOutput>>
    /\ Unchanged_inputs

AtImportBranch ==
    /\ IsUsedStatement
    /\ typesLibraryName = NoLib
    /\ importedLibraryName # NoLib /\ isAllowedAsImportedLibrary /\ ~shouldBeInlined

\* l.128-130
ThrowUnnamedImport ==
    /\ AtImportBranch
    /\ ~HasNodeIdentifier(CurNode)
    /\ Throw([msg |-> "Import/usage unnamed declaration", syms |-> CurNode.syms,
              file |-> CurFileIndex])

\* l.132-145
ImportStatement ==
    /\ AtImportBranch
    /\ HasNodeIdentifier(CurNode)
    /\ IF getSymbolsUsingNode(CurNode) = Null
       THEN Throw([msg |-> "Something went wrong - value cannot be null",
                   syms |-> CurNode.syms, file |-> CurFileIndex])
       ELSE IF shouldNodeBeImported(CurNode, program.rootFileExports)
       THEN /\ importedSymbols' =
                    AddImport(importedSymbols, importedLibraryName, ImportName(CurNode))
            /\ NextStatement("imported")
            /\ UNCHANGED <<usedTypes, nodesForOutput>>
       ELSE /\ NextStatement("notImported")
            /\ UNCHANGED <<usedTypes, importedSymbols, nodesForOutput>>

AtInlineBranch ==
    /\ IsUsedStatement
    /\ typesLibraryName = NoLib
    /\ ~(importedLibraryName # NoLib /\ isAllowedAsImportedLibrary /\ ~shouldBeInlined)

\* l.155-159
ThrowOnClass ==
    /\ AtInlineBranch
    /\ CurNode.kind = "ClassDeclaration"
    /\ options.failOnClass
    /\ Throw([msg |-> "Class was found in generated dts", syms |-> CurNode.syms,
              file |-> CurFileIndex])

\* the inline branch without the failOnClass test
InlineStatement_withoutGate ==
    /\ AtInlineBranch
    /\ nodesForOutput' =
            Append(nodesForOutput,
                   [id |-> CurId,
                    text |-> InlinedText(CurNode, program.rootFileExports, isRootSourceFile)])
    /\ NextStatement("inlined")
    /\ UNCHANGED <<usedTypes, importedSymbols>>

\* l.148-188
InlineStatement ==
    /\ AtInlineBranch
    /\ ~(CurNode.kind = "ClassDeclaration" /\ options.failOnClass)
    /\ nodesForOutput' =
            Append(nodesForOutput,
                   [id |-> CurId,
                    text |-> InlinedText(CurNode, program.rootFileExports, isRootSourceFile)])
    /\ NextStatement("inlined")
    /\ UNCHANGED <<usedTypes, importedSymbols>>

\* l.191-194: the statements of the file are exhausted, or the loop was left
EndFile ==
    /\ call = "bundle"
    /\ \/ pc = "break"
       \/ pc = "stmts" /\ stmtIdx > Len(sourceFile.statements)
    /\ fileIdx' = fileIdx + 1
    /\ pc' = "files"
    /\ UNCHANGED <<stmtIdx, sourceFiles, resultOutput, error, disp,
                   usedTypes, importedSymbols, nodesForOutput>>
    /\ Unchanged_inputs

\* l.196-227
Render ==
    /\ call = "bundle"
    /\ pc = "files"
    /\ fileIdx > Len(sourceFiles)
    /\ nodesForOutput' = IF options.sortNodes THEN SortNodes(nodesForOutput)
                         ELSE nodesForOutput
    /\ resultOutput' = RenderBundle(usedTypes, importedSymbols, nodesForOutput, options)
    /\ pc' = "done"
    /\ UNCHANGED <<fileIdx, stmtIdx, sourceFiles, error, disp, usedTypes, importedSymbols>>
    /\ Unchanged_inputs

\* generateOutput(params, options)
GenerateOutput ==
    /\ call = "output"
    /\ pc = "start"
    /\ output' = generateOutput(params, outOptions)
    /\ pc' = "done"
    /\ UNCHANGED <<call, program, options, params, outOptions, sourceFiles, fileIdx,
                   stmtIdx, usedTypes, importedSymbols, nodesForOutput, resultOutput,
                   error, disp>>

----------------------------------------------------------------------------
(* The explored inputs *)

B == BOOLEAN

DefaultOptions ==
    [failOnClass |-> FALSE, sortNodes |-> FALSE, inlinedLibraries |-> {},
     importedLibraries |-> Undefined, allowedTypesLibraries |-> Undefined,
     umdModuleName |-> Undefined]

Optional(S) == {Undefined} \cup {Defined(v) : v \in SUBSET S}

\* the statements the grammar of declaration files allows, per kind
ClassShapes ==
    {Stmt("ClassDeclaration", {2}, m[1], m[2], m[3], abs, FALSE, FALSE, doc) :
        m \in {<<TRUE, TRUE, FALSE>>, <<TRUE, FALSE, TRUE>>, <<TRUE, FALSE, FALSE>>,
               <<FALSE, FALSE, TRUE>>},
        abs \in B, doc \in B}

EnumShapes ==
    {Stmt("EnumDeclaration", {2}, m[1], FALSE, m[2], FALSE, cnst, FALSE, doc) :
        m \in {<<TRUE, TRUE>>, <<TRUE, FALSE>>, <<FALSE, TRUE>>}, cnst \in B, doc \in B}

InterfaceShapes ==
    {Stmt("InterfaceDeclaration", {2}, m[1], m[2], FALSE, FALSE, FALSE, FALSE, doc) :
        m \in {<<TRUE, TRUE>>, <<TRUE, FALSE>>, <<FALSE, FALSE>>}, doc \in B}

TypeAliasShapes ==
    {Stmt("TypeAliasDeclaration", {2}, exp, FALSE, ~exp, FALSE, FALSE, FALSE, FALSE) :
        exp \in B}

FunctionShapes ==
    {Stmt("FunctionDeclaration", {2}, m[1], m[2], m[3], FALSE, FALSE, FALSE, doc) :
        m \in {<<TRUE, TRUE, FALSE>>, <<TRUE, FALSE, TRUE>>, <<TRUE, FALSE, FALSE>>,
               <<FALSE, FALSE, TRUE>>},
        doc \in B}

ModuleShapes ==
    {Stmt("ModuleDeclaration", {2}, m[1], FALSE, m[2], FALSE, FALSE, FALSE, FALSE) :
        m \in {<<TRUE, TRUE>>, <<TRUE, FALSE>>, <<FALSE, TRUE>>}}

VariableShapes ==
    {Stmt("VariableStatement", syms, m[1], FALSE, m[2], FALSE, cnst, FALSE, FALSE) :
        syms \in {{2}, {2, 3}},
        m \in {<<TRUE, TRUE>>, <<TRUE, FALSE>>, <<FALSE, TRUE>>}, cnst \in B}

ExportAssignmentShapes ==
    {Stmt("ExportAssignment", {}, FALSE, FALSE, FALSE, FALSE, FALSE, eq, FALSE) : eq \in B}

SkippedShapes ==
    {Stmt(k, {}, k = "ExportDeclaration", FALSE, FALSE, FALSE, FALSE, FALSE, FALSE) :
        k \in SkippedKinds}

Shapes ==
    ClassShapes \cup EnumShapes \cup InterfaceShapes \cup TypeAliasShapes
    \cup FunctionShapes \cup ModuleShapes \cup VariableShapes
    \cup ExportAssignmentShapes \cup SkippedShapes

\* a declaration in the form the declaration emitter writes it
Decl(kind, syms) ==
    Stmt(kind, syms, TRUE, FALSE,
         kind \notin {"InterfaceDeclaration", "TypeAliasDeclaration"},
         FALSE, FALSE, FALSE, FALSE)

ImportDecl == Stmt("ImportDeclaration", {}, FALSE, FALSE, FALSE, FALSE, FALSE, FALSE, FALSE)

RootFile(statements) == File(NoLib, NoLib, FALSE, TRUE, statements)
ProjectFile(statements) == File(NoLib, NoLib, FALSE, FALSE, statements)
LibFile(lib, statements) == File(lib, NoLib, FALSE, FALSE, statements)
\* the library name of a types package differs from every regular library
TypesFile(typesLib, statements) == File(NLib + typesLib, typesLib, FALSE, FALSE, statements)
TsLibFile(statements) == File(NLib + NTypes + 1, NoLib, TRUE, FALSE, statements)

Edges == {e \in Symbols \X Symbols : e[1] # e[2]}
Graphs == {g \in SUBSET Edges : Cardinality(g) <= MaxEdges}
RootSets == (SUBSET Symbols) \ {{}}

Scenario(files, uses, roots, opts) ==
    [files |-> files, uses |-> uses, rootFileExports |-> roots, options |-> opts]

\* the type checker's exports of the root module hold every declaration the
\* root file itself exports
WellFormed(scn) ==
    /\ Cardinality({f \in DOMAIN scn.files : scn.files[f].isRoot}) = 1
    /\ \A f \in DOMAIN scn.files : \A i \in DOMAIN scn.files[f].statements :
          LET node == scn.files[f].statements[i]
          IN scn.files[f].isRoot /\ node.exp => node.syms \subseteq scn.rootFileExports

\* generateDtsBundle is entered with the program and the options of a scenario
Start(scn) ==
    /\ WellFormed(scn)
    /\ program = [files |-> scn.files, uses |-> scn.uses,
                  rootFileExports |-> scn.rootFileExports]
    /\ options = scn.options

\* One statement under test (symbol 2), in the root file, a sibling file, a
\* types package or a library, for every usage graph and set of root exports.
\* Symbol 1 is an interface of the root file; symbol 3 a declaration of the
\* project, of another library, or of both.
ProbeStatements ==
    {Decl(k, {2}) : k \in NamedDeclarationKinds}
    \cup {Decl("VariableStatement", {2}), Decl("VariableStatement", {2, 3}),
          Decl("FunctionDeclaration", {}), ImportDecl}
    \cup ExportAssignmentShapes

HelperFiles(helper) ==
    CASE helper = "project" -> <<ProjectFile(<<Decl("InterfaceDeclaration", {3})>>)>>
      [] helper = "library" -> <<LibFile(2, <<Decl("ClassDeclaration", {3})>>)>>
      [] helper = "libraryValue" ->
            <<LibFile(2, <<Decl("ClassDeclaration", {3})>>),
              ProjectFile(<<Decl("InterfaceDeclaration", {3})>>)>>
      [] helper = "projectValue" ->
            <<LibFile(2, <<Decl("InterfaceDeclaration", {3})>>),
              ProjectFile(<<Decl("ClassDeclaration", {3})>>)>>

RootStatements == <<ImportDecl, Decl("InterfaceDeclaration", {1})>>

ProbeFiles(place, probe, helper) ==
    LET under == <<probe, Decl("InterfaceDeclaration", {2})>>
    IN CASE place = "root" -> HelperFiles(helper) \o <<RootFile(RootStatements \o <<probe>>)>>
         [] place = "sibling" ->
                <<ProjectFile(under)>> \o HelperFiles(helper) \o <<RootFile(RootStatements)>>
         [] place = "types" ->
                <<TypesFile(1, under)>> \o HelperFiles(helper) \o <<RootFile(RootStatements)>>
         [] place = "library" ->
                <<LibFile(1, under)>> \o HelperFiles(helper) \o <<RootFile(RootStatements)>>

ProbeSettings ==
    {<<place, "project", DefaultOptions>> : place \in {"root", "sibling"}}
    \cup {<<"types", "project", [DefaultOptions EXCEPT !.allowedTypesLibraries = a]>> :
            a \in {Undefined, Defined({}), Defined({1})}}
    \cup {<<"library", helper,
            [DefaultOptions EXCEPT !.inlinedLibraries = inl, !.importedLibraries = imp]>> :
            helper \in {"project", "library", "libraryValue", "projectValue"},
            inl \in {{}, {1}}, imp \in {Undefined, Defined({}), Defined({1})}}

InitProbe ==
    \E set \in ProbeSettings, probe \in ProbeStatements, uses \in Graphs,
       roots \in {r \in RootSets : 1 \in r} :
        Start(Scenario(ProbeFiles(set[1], probe, set[2]), uses, roots, set[3]))

\* Every statement shape, in the root file, a sibling file, a library
\* (inlined or imported) or a types package, used or not, exported from the
\* root or not, with and without failOnClass.
TextSettings ==
    {<<place, "project",
       [DefaultOptions EXCEPT !.failOnClass = foc, !.inlinedLibraries = inl]>> :
        place \in {"root", "sibling", "library", "types"}, foc \in B, inl \in {{}, {1}}}

InitText ==
    \E set \in TextSettings, shape \in Shapes, uses \in {{}, {<<1, 2>>}},
       roots \in {r \in RootSets : 1 \in r} :
        Start(Scenario(ProbeFiles(set[1], shape, set[2]), uses, roots, set[3]))

\* Two libraries and two types packages, met in descending order of their
\* names, a types package of two files, a library whose names are met in
\* descending order and twice, for every choice of the library options.
OrderFiles ==
    <<TypesFile(2, <<Decl("InterfaceDeclaration", {3})>>),
      LibFile(2, <<Decl("InterfaceDeclaration", {3}), Decl("ClassDeclaration", {2})>>),
      TypesFile(1, <<ImportDecl, Decl("InterfaceDeclaration", {2}),
                     Decl("InterfaceDeclaration", {3})>>),
      LibFile(1, <<Decl("InterfaceDeclaration", {3}), Decl("InterfaceDeclaration", {2}),
                   Decl("TypeAliasDeclaration", {3})>>),
      TsLibFile(<<Decl("InterfaceDeclaration", {2})>>),
      ProjectFile(<<Decl("VariableStatement", {3}), Decl("EnumDeclaration", {2}),
                    Stmt("ExportAssignment", {}, FALSE, FALSE, FALSE, FALSE, FALSE, FALSE,
                         FALSE)>>),
      TypesFile(1, <<Decl("InterfaceDeclaration", {2})>>),
      RootFile(RootStatements \o
               <<Stmt("ExportAssignment", {}, FALSE, FALSE, FALSE, FALSE, FALSE, FALSE, FALSE)>>)>>

InitOrder ==
    \E uses \in {{<<1, 2>>}, {<<1, 3>>}, {<<1, 2>>, <<1, 3>>}}, roots \in {{1}, {1, 3}},
       sort \in B, inl \in SUBSET Libs, imp \in Optional(Libs),
       allowed \in Optional(TypesLibs), umd \in {Undefined, Defined({})} :
        Start(Scenario(OrderFiles, uses, roots,
                       [failOnClass |-> FALSE, sortNodes |-> sort, inlinedLibraries |-> inl,
                        importedLibraries |-> imp, allowedTypesLibraries |-> allowed,
                        umdModuleName |-> umd]))

EmptyParams ==
    [typesReferences |-> <<>>, imports |-> <<>>, statements |-> <<>>,
     renamedExports |-> <<>>]
DefaultOutOptions == [umdModuleName |-> Undefined, sortStatements |-> FALSE, noBanner |-> FALSE]

OutOptionsSet ==
    {[umdModuleName |-> umd, sortStatements |-> sort, noBanner |-> nb] :
        umd \in {Undefined, Defined({})}, sort \in B, nb \in B}

\* a Set in every insertion order of at most two of its elements
Insertions(S) ==
    {<<>>} \cup {<<x>> : x \in S} \cup {p \in S \X S : p[1] # p[2]}

ImportSets ==
    {[defaultImports |-> d, starImports |-> st, namedImports |-> n, requireImports |-> r] :
        d \in {<<>>, <<2, 1>>}, st \in {<<>>, <<2, 1>>},
        n \in {<<>>, <<3, 1, 2>>}, r \in {<<>>, <<2, 1>>}}

ImportEntry(lib, set) ==
    [lib |-> lib, defaultImports |-> set.defaultImports, starImports |-> set.starImports,
     namedImports |-> set.namedImports, requireImports |-> set.requireImports]

ImportMaps ==
    {<<>>}
    \cup {<<ImportEntry(l, set)>> : l \in Libs, set \in ImportSets}
    \cup {<<ImportEntry(p[1], set), ImportEntry(p[2], other)>> :
            p \in {q \in Libs \X Libs : q[1] # q[2]},
            set \in ImportSets,
            other \in {x \in ImportSets : x.namedImports # <<>> /\ x.starImports = x.defaultImports
                                             /\ x.starImports = x.requireImports}}

OutStatement(node, shouldExport, stripDefault, stripConst, i) ==
    [node |-> node, shouldExport |-> shouldExport, stripDefault |-> stripDefault,
     stripConst |-> stripConst, id |-> <<1, i>>]

\* the sections of the output, present or absent, in every insertion order
SectionParams(p) ==
    \E refs \in Insertions(TypesLibs), imps \in ImportMaps,
       stmts \in {<<>>,
                  <<OutStatement(Decl("InterfaceDeclaration", {2}), TRUE, FALSE, FALSE, 1),
                    OutStatement(Decl("ClassDeclaration", {1}), FALSE, FALSE, FALSE, 2)>>},
       renamed \in {<<>>, <<2, 1>>} :
        p = [typesReferences |-> refs, imports |-> imps, statements |-> stmts,
             renamedExports |-> renamed]

\* a class, a function and a variable statement written without export and
\* without declare, as getStatementText may be handed them
BareShapes ==
    {Stmt("ClassDeclaration", {2}, FALSE, FALSE, FALSE, abs, FALSE, FALSE, FALSE) : abs \in B}
    \cup {Stmt("FunctionDeclaration", {2}, FALSE, FALSE, FALSE, FALSE, FALSE, FALSE, FALSE)}
    \cup {Stmt("VariableStatement", {2}, FALSE, FALSE, FALSE, FALSE, cnst, FALSE, FALSE) :
            cnst \in B}

\* one statement of every shape, for every answer of the helpers
TextParams ==
    {[EmptyParams EXCEPT !.statements =
            <<OutStatement(shape, shouldExport, stripDefault, stripConst, 1)>>] :
        shape \in Shapes \cup BareShapes, shouldExport \in B, stripDefault \in B,
        stripConst \in B}

InitOutput ==
    /\ call = "output"
    /\ \/ SectionParams(params) /\ outOptions \in OutOptionsSet
       \/ params \in TextParams /\ outOptions = DefaultOutOptions
    /\ program = [files |-> <<>>, uses |-> {}, rootFileExports |-> {}]
    /\ options = DefaultOptions
    /\ disp = <<>>

InitBundle ==
    /\ call = "bundle"
    /\ InitProbe \/ InitText \/ InitOrder
    /\ disp = [id \in StmtIds(program.files) |-> "pending"]
    /\ params = EmptyParams
    /\ outOptions = DefaultOutOptions

Init ==
    /\ (InitBundle \/ InitOutput)
    /\ pc = "start"
    /\ sourceFiles = <<>>
    /\ fileIdx = 0
    /\ stmtIdx = 0
    /\ usedTypes = <<>>
    /\ importedSymbols = <<>>
    /\ nodesForOutput = <<>>
    /\ resultOutput = <<>>
    /\ error = NoError
    /\ output = <<>>

Next ==
    \/ Prepare
    \/ BeginFile
    \/ SkipStatement
    \/ DropUnused
    \/ AddTypesReference
    \/ ThrowUnnamedImport
    \/ ImportStatement
    \/ ThrowOnClass
    \/ InlineStatement
    \/ EndFile
    \/ Render
    \/ GenerateOutput

Spec == Init /\ [][Next]_vars

----------------------------------------------------------------------------
(* Vocabulary of the properties *)

BundleDone == call = "bundle" /\ pc = "done"
OutputDone == call = "output" /\ pc = "done"

Sections(out) == [i \in DOMAIN out |-> out[i].sec]
Count(out, sec) == Cardinality({i \in DOMAIN out : out[i].sec = sec})

\* by a path of one-hop uses edges; a symbol reaches itself
Reaches(by, symbol) ==
    \/ by = symbol
    \/ \E n \in 1..Cardinality(Symbols) :
          \E path \in [1..(n + 1) -> Symbols] :
              /\ path[1] = by
              /\ path[n + 1] = symbol
              /\ \A i \in 1..n : <<path[i], path[i + 1]>> \in program.uses

\* D is a root-file export or a root-file export transitively uses it
ReachedFromRoot(node) ==
    \E root \in program.rootFileExports : \E symbol \in node.syms : Reaches(root, symbol)

FileOf(id) == program.files[id[1]]
Analyzed(id) == Contains(sourceFiles, id[1])
AllIds == StmtIds(program.files)

Emitted(id) == disp[id] \in {"inlined", "imported", "reference"}
FragmentsOf(id) == {i \in DOMAIN nodesForOutput : nodesForOutput[i].id = id}

\* the text of a fragment without its leading documentation comment
Declaration(text) == IF text # <<>> /\ Head(text) = JSDoc THEN Tail(text) ELSE text
StartsWith(text, tok) == text # <<>> /\ Head(text) = tok

----------------------------------------------------------------------------
(* C1. Every successful run returns text that ends with the empty-export    *)
(* marker; with a UMD module name the namespace line is present and comes   *)
(* before the marker; nothing follows the marker.                           *)

EndsWithMarker(out, umd) ==
    /\ out # <<>>
    /\ out[Len(out)].sec = "marker"
    /\ Count(out, "marker") = 1
    /\ umd => \E i \in 1..(Len(out) - 1) : out[i].sec = "umd"

C1_TrailingMarker ==
    /\ BundleDone => EndsWithMarker(resultOutput, options.umdModuleName.def)
    /\ OutputDone => EndsWithMarker(output, outOptions.umdModuleName.def)

----------------------------------------------------------------------------
(* C2. Reachability soundness: a statement that is not a root-file export   *)
(* and that no root-file export transitively uses yields no fragment, no    *)
(* import-table entry and no type reference. An export assignment yields a  *)
(* fragment only when it is a default one of the root file, a variable      *)
(* statement only when one of its names is a root export.                   *)

MayBeEmitted(id) ==
    LET node == NodeAt(id)
    IN CASE node.kind = "ExportAssignment" -> FileOf(id).isRoot /\ ~node.eq
         [] node.kind = "VariableStatement" -> node.syms \cap program.rootFileExports # {}
         [] node.kind \in NamedDeclarationKinds -> ReachedFromRoot(node)
         [] OTHER -> FALSE

C2_ReachabilitySoundness ==
    call = "bundle" =>
        /\ \A id \in AllIds : Emitted(id) => MayBeEmitted(id)
        /\ \A i \in DOMAIN nodesForOutput :
              /\ nodesForOutput[i].id \in AllIds
              /\ disp[nodesForOutput[i].id] = "inlined"
        /\ \A i \in DOMAIN importedSymbols : \A j \in DOMAIN importedSymbols[i].names :
              \E id \in AllIds :
                  /\ disp[id] = "imported"
                  /\ FileOf(id).lib = importedSymbols[i].lib
                  /\ importedSymbols[i].names[j] \in NodeAt(id).syms
        /\ \A i \in DOMAIN usedTypes :
              \E id \in AllIds : disp[id] = "reference" /\ FileOf(id).typesLib = usedTypes[i]
        /\ \A i \in DOMAIN resultOutput :
              resultOutput[i].sec = "statement" => disp[resultOutput[i].id] = "inlined"

\* a run that dropped an unused declaration of every file it analyzed but the
\* root and still emitted a fragment
C2_Witness ==
    /\ BundleDone
    /\ nodesForOutput # <<>>
    /\ \E id \in AllIds :
          /\ disp[id] = "unused"
          /\ NodeAt(id).kind \in NamedDeclarationKinds
          /\ NodeAt(id).syms # {}
          /\ ~ReachedFromRoot(NodeAt(id))
    /\ \E id \in AllIds :
          /\ disp[id] = "unused"
          /\ NodeAt(id).kind = "VariableStatement"
          /\ ReachedFromRoot(NodeAt(id))
    /\ \E id \in AllIds :
          /\ disp[id] = "unused"
          /\ NodeAt(id).kind = "ExportAssignment"

----------------------------------------------------------------------------
(* C3. Reachability completeness: every declaration of an analyzed file     *)
(* that is a root-file export, or that a root-file export transitively      *)
(* uses, is represented exactly once in the result of a successful run: by  *)
(* one fragment, by its name in the import table of its library, or by the  *)
(* type-reference entry of its types package.                               *)

Representations(id) ==
    LET node == NodeAt(id)
        file == FileOf(id)
        names == {<<i, j>> \in (DOMAIN importedSymbols) \X Symbols :
                    /\ importedSymbols[i].lib = file.lib
                    /\ j \in node.syms
                    /\ Contains(importedSymbols[i].names, j)}
        references == {i \in DOMAIN usedTypes : usedTypes[i] = file.typesLib}
    IN Cardinality(FragmentsOf(id)) + Cardinality(names) + Cardinality(references)

C3_ReachabilityCompleteness ==
    BundleDone =>
        \A id \in AllIds :
            /\ Analyzed(id)
            /\ NodeAt(id).kind \notin SkippedKinds
            /\ NodeAt(id).syms # {}
            /\ ReachedFromRoot(NodeAt(id))
            => Representations(id) = 1

----------------------------------------------------------------------------
(* C4. Export-modifier correctness: the fragment of an inlined class or     *)
(* enum starts with export if and only if its symbol is a root-file export, *)
(* except that a const enum always starts with export; the fragment of      *)
(* every other inlined statement starts with export. The rewrite adds the   *)
(* keyword when it is required and absent, removes it when it is present    *)
(* and not required, and leaves the text unchanged otherwise.               *)

ExportRequired(id) ==
    LET node == NodeAt(id)
    IN CASE node.kind = "ClassDeclaration" -> node.syms \cap program.rootFileExports # {}
         [] node.kind = "EnumDeclaration" ->
                node.cnst \/ node.syms \cap program.rootFileExports # {}
         [] OTHER -> TRUE

ExportRewritten(original, required) ==
    IF required /\ ~StartsWith(original, "export") THEN <<"export">> \o original
    ELSE IF ~required /\ StartsWith(original, "export") THEN Tail(original)
    ELSE original

Without(text, words) == SelectSeq(text, LAMBDA t : t \notin words)

C4_ExportModifier ==
    call = "bundle" =>
        \A i \in DOMAIN nodesForOutput :
            LET id == nodesForOutput[i].id
                node == NodeAt(id)
                text == Declaration(nodesForOutput[i].text)
                rewritten == ExportRewritten(getText(node), ExportRequired(id))
            IN /\ StartsWith(text, "export") <=> ExportRequired(id)
               /\ ~node.def \/ FileOf(id).isRoot => text = rewritten
               /\ node.def /\ ~FileOf(id).isRoot =>
                      Without(text, {"declare"}) = Without(rewritten, {"default", "declare"})

\* a class whose export keyword was removed, beside a fragment that starts
\* with the keyword
C4_Witness ==
    /\ BundleDone
    /\ \E i \in DOMAIN nodesForOutput :
          LET node == NodeAt(nodesForOutput[i].id)
          IN /\ node.kind = "ClassDeclaration"
             /\ node.exp
             /\ ~StartsWith(nodesForOutput[i].text, "export")
    /\ \E i \in DOMAIN nodesForOutput :
          /\ NodeAt(nodesForOutput[i].id).kind = "InterfaceDeclaration"
          /\ StartsWith(Declaration(nodesForOutput[i].text), "export")

----------------------------------------------------------------------------
(* C5. Default-stripping: the fragment of a declaration that carries the    *)
(* default modifier and is not taken from the root file holds no default    *)
(* keyword; for a class the keyword is replaced by declare, for every other *)
(* kind it is removed. A declaration of the root file keeps the keyword.    *)
(* Both for a declaration the root exports and for one it does not, in the  *)
(* selection loop and in getStatementText.                                  *)

PositionOf(word, text) == CHOOSE i \in DOMAIN text : text[i] = word

\* the text with its default keyword removed, or replaced by declare
DefaultStripped(text, byDeclare) ==
    IF ~Contains(text, "default") THEN text
    ELSE LET i == PositionOf("default", text)
         IN SubSeq(text, 1, i - 1) \o (IF byDeclare THEN <<"declare">> ELSE <<>>)
            \o SubSeq(text, i + 1, Len(text))

DefaultHandled(text, node, exported, stripped) ==
    LET rewritten == ExportRewritten(getText(node), exported)
        isClass == node.kind = "ClassDeclaration"
    IN IF stripped
       THEN /\ ~Contains(text, "default")
            /\ text \in {DefaultStripped(rewritten, isClass),
                         <<"declare">> \o DefaultStripped(rewritten, isClass)}
            /\ isClass => text = DefaultStripped(rewritten, TRUE)
       ELSE /\ Contains(text, "default")
            /\ text \in {rewritten, <<"declare">> \o rewritten}

C5_DefaultStripping ==
    /\ call = "bundle" =>
          \A i \in DOMAIN nodesForOutput :
              LET id == nodesForOutput[i].id
                  text == Declaration(nodesForOutput[i].text)
              IN NodeAt(id).def =>
                    /\ DefaultHandled(text, NodeAt(id), ExportRequired(id), ~FileOf(id).isRoot)
                    /\ ~FileOf(id).isRoot =>
                          text = DefaultStripped(ExportRewritten(getText(NodeAt(id)),
                                                                 ExportRequired(id)),
                                                 NodeAt(id).kind = "ClassDeclaration")
    /\ OutputDone =>
          \A i \in DOMAIN output :
              output[i].sec = "statement" =>
                 \A k \in DOMAIN params.statements :
                    LET s == params.statements[k]
                    IN s.id = output[i].id /\ s.node.def =>
                          DefaultHandled(Declaration(output[i].text), s.node,
                                         s.shouldExport, s.stripDefault)

\* a default class of a sibling file that the root does not export, inlined
\* with declare in the place of default
C5_Witness ==
    /\ BundleDone
    /\ \E i \in DOMAIN nodesForOutput :
          LET id == nodesForOutput[i].id
          IN /\ NodeAt(id).kind = "ClassDeclaration"
             /\ NodeAt(id).def
             /\ ~FileOf(id).isRoot
             /\ ~ExportRequired(id)
             /\ StartsWith(nodesForOutput[i].text, "declare")

----------------------------------------------------------------------------
(* C6. failOnClass policy gate: with failOnClass, a used class declaration  *)
(* that reaches the inlining step (its file is neither of a types package   *)
(* nor of an allowed library that is not inlined) makes the run fail with   *)
(* an error that names the class and its file, and no text is returned; a   *)
(* used class of a types package or of an imported library does not fail    *)
(* the run. Without failOnClass no class declaration makes the run fail.    *)

ClassError == error.msg = "Class was found in generated dts"

\* a used class declaration of a file whose statements are inlined
UsedClassAtInlining(id) ==
    /\ NodeAt(id).kind = "ClassDeclaration"
    /\ MayBeEmitted(id)
    /\ FileOf(id).typesLib = NoLib
    /\ \/ FileOf(id).lib = NoLib
       \/ FileOf(id).lib \in options.inlinedLibraries
       \/ options.importedLibraries.def /\ FileOf(id).lib \notin options.importedLibraries.val

C6_Gate ==
    /\ call = "bundle" /\ options.failOnClass =>
          \A id \in AllIds : disp[id] = "inlined" => NodeAt(id).kind # "ClassDeclaration"
    /\ ClassError =>
          /\ pc = "failed"
          /\ options.failOnClass
          /\ UsedClassAtInlining(CurId)
          /\ error.syms = CurNode.syms
          /\ error.file = CurFileIndex
          /\ resultOutput = <<>>
    /\ call = "bundle" =>
          \A id \in AllIds :
              /\ NodeAt(id).kind = "ClassDeclaration"
              /\ disp[id] \in {"reference", "imported", "notImported"}
              => FileOf(id).lib # NoLib /\ FileOf(id).lib \notin options.inlinedLibraries

C6_FailOnClassGate ==
    /\ []C6_Gate
    /\ [][AtStatement /\ UsedClassAtInlining(CurId) /\ options.failOnClass
          => pc' = "failed" /\ ClassError']_vars

\* the statement of the gate for every used class the loop reaches
C6_EveryUsedClassFails ==
    call = "bundle" /\ options.failOnClass =>
        \A id \in AllIds :
            disp[id] \in {"reference", "imported", "notImported", "inlined"}
            => NodeAt(id).kind # "ClassDeclaration"

\* the run failed on a class after it had accumulated a fragment
C6_Witness ==
    /\ pc = "failed"
    /\ ClassError
    /\ nodesForOutput # <<>>
    /\ resultOutput = <<>>

----------------------------------------------------------------------------
(* C7. Import instead of inline: a used statement of a regular library that *)
(* importedLibraries allows and inlinedLibraries does not list yields no    *)
(* fragment; its name is added to the import table of the library exactly   *)
(* when a symbol that uses it has a declaration outside the external        *)
(* libraries and is reachable from a root export. A used statement without  *)
(* a name fails the run there. The statements of a library listed in        *)
(* inlinedLibraries are inlined even when the library is allowed as         *)
(* imported.                                                                *)

RegularLibrary(file) == file.lib # NoLib /\ file.typesLib = NoLib /\ ~file.isTsLib

AllowedAsImported(file) ==
    ~options.importedLibraries.def \/ file.lib \in options.importedLibraries.val

UsersOf(node) == {e[1] : e \in {x \in program.uses : x[2] \in node.syms}}

HasLocalDeclaration(symbol) == \E d \in DeclarationsOf(symbol) : FileOf(d).lib = NoLib

UsedByLocalReachedSymbol(node) ==
    \E symbol \in UsersOf(node) :
        /\ HasLocalDeclaration(symbol)
        /\ \E root \in program.rootFileExports : Reaches(root, symbol)

InImportTable(id) ==
    \E i \in DOMAIN importedSymbols :
        /\ importedSymbols[i].lib = FileOf(id).lib
        /\ \E name \in NodeAt(id).syms : Contains(importedSymbols[i].names, name)

UnnamedError == error.msg = "Import/usage unnamed declaration"

C7_ImportInsteadOfInline ==
    call = "bundle" =>
        /\ \A id \in AllIds :
              /\ RegularLibrary(FileOf(id))
              /\ disp[id] \notin {"pending", "skipped", "unused"}
              =>
              IF FileOf(id).lib \in options.inlinedLibraries
              THEN disp[id] = "inlined" /\ Cardinality(FragmentsOf(id)) = 1
              ELSE AllowedAsImported(FileOf(id)) =>
                      /\ FragmentsOf(id) = {}
                      /\ NodeAt(id).kind \in NamedDeclarationKinds /\ NodeAt(id).syms # {}
                      /\ disp[id] = "imported" <=> UsedByLocalReachedSymbol(NodeAt(id))
                      /\ disp[id] = "imported" => InImportTable(id)
        /\ UnnamedError =>
              /\ pc = "failed"
              /\ RegularLibrary(sourceFile)
              /\ AllowedAsImported(sourceFile)
              /\ sourceFile.lib \notin options.inlinedLibraries
              /\ MayBeEmitted(CurId)
              /\ CurNode.kind \notin NamedDeclarationKinds \/ CurNode.syms = {}
              /\ resultOutput = <<>>

----------------------------------------------------------------------------
(* C8. Types-only packages: a file of a types package contributes no        *)
(* fragment and no import-table entry; the package is in the type-reference *)
(* set at the end of the run if and only if a statement of one of its       *)
(* analyzed files is used; the loop leaves the file at its first used       *)
(* statement; the rendered text holds exactly one reference directive per   *)
(* package of the set.                                                      *)

IsTypesFile(file) == file.typesLib # NoLib

ReferencesTo(out, pkg) ==
    Cardinality({i \in DOMAIN out : out[i].sec = "reference" /\ out[i].lib = pkg})

----------------------------------------------------------------------------
(* C9. Fixed section order of the rendered text: the banner (unless         *)
(* noBanner), the reference directives, the imports, the fragments, the     *)
(* renamed-export block (when renamedExports is not empty), the namespace   *)
(* line (when umdModuleName is set), the empty-export marker. A section     *)
(* whose input is empty is omitted, no section comes before one that        *)
(* precedes it in the list, and without the sort option the fragments are   *)
(* in file-then-statement encounter order.                                  *)

SectionOrder ==
    <<"banner", "reference", "import", "statement", "renamed", "umd", "marker">>

SectionRank(sec) == IndexIn(sec, SectionOrder)

InSectionOrder(out) ==
    \A i, j \in DOMAIN out : i < j => SectionRank(out[i].sec) <= SectionRank(out[j].sec)

\* expected: for every section, whether the text has to hold it
SectionsAsExpected(out, expected) ==
    /\ InSectionOrder(out)
    /\ \A sec \in Range(SectionOrder) : (Count(out, sec) > 0) <=> expected[sec]
    /\ \A sec \in {"banner", "renamed", "umd", "marker"} : Count(out, sec) <= 1

StatementIds(out) ==
    LET chunks == SelectSeq(out, LAMBDA c : c.sec = "statement")
    IN [i \in DOMAIN chunks |-> chunks[i].id]

HasImportForm(entry) ==
    \/ entry.starImports # <<>>
    \/ entry.requireImports # <<>>
    \/ entry.defaultImports # <<>>
    \/ entry.namedImports # <<>>

C9_SectionOrder ==
    /\ BundleDone =>
          /\ SectionsAsExpected(resultOutput,
                [sec \in Range(SectionOrder) |->
                    CASE sec = "banner" -> TRUE
                      [] sec = "reference" -> usedTypes # <<>>
                      [] sec = "import" -> importedSymbols # <<>>
                      [] sec = "statement" -> nodesForOutput # <<>>
                      [] sec = "renamed" -> FALSE
                      [] sec = "umd" -> options.umdModuleName.def
                      [] sec = "marker" -> TRUE])
          /\ ~options.sortNodes =>
                LET ids == StatementIds(resultOutput)
                IN \A i, j \in DOMAIN ids : i < j => IdBefore(ids[i], ids[j])
    /\ OutputDone =>
          /\ SectionsAsExpected(output,
                [sec \in Range(SectionOrder) |->
                    CASE sec = "banner" -> ~outOptions.noBanner
                      [] sec = "reference" -> params.typesReferences # <<>>
                      [] sec = "import" ->
                            \E i \in DOMAIN params.imports : HasImportForm(params.imports[i])
                      [] sec = "statement" -> params.statements # <<>>
                      [] sec = "renamed" -> params.renamedExports # <<>>
                      [] sec = "umd" -> outOptions.umdModuleName.def
                      [] sec = "marker" -> TRUE])
          /\ ~outOptions.sortStatements =>
                StatementIds(output) =
                    [i \in DOMAIN params.statements |-> params.statements[i].id]

\* the same statement for the text of generateOutput alone
C9_OutputSectionOrder == call = "output" => C9_SectionOrder

\* the sections generateDtsBundle renders are in order among themselves
C9_BundleOrderAmongRendered ==
    BundleDone =>
        /\ InSectionOrder(resultOutput)
        /\ ~options.sortNodes =>
              LET ids == StatementIds(resultOutput)
              IN \A i, j \in DOMAIN ids : i < j => IdBefore(ids[i], ids[j])

----------------------------------------------------------------------------
(* C10. Import determinism: the rendered header depends only on the         *)
(* contents of the type-reference set and of the import table, not on the   *)
(* order of insertion: the reference directives are in ascending order of   *)
(* package name, the libraries in ascending order of library name, and for  *)
(* each library the star imports, the require imports and the default       *)
(* imports are each in ascending order, followed by one named-import        *)
(* statement whose names are in ascending order.                            *)

Header(out) == SelectSeq(out, LAMBDA c : c.sec \in {"reference", "import"})

\* the header as the contents alone determine it. names: for every library
\* and import form, the set of the names imported in that form
CanonicalReferences(packages) ==
    LET sorted == SeqOfSet(packages)
    IN [i \in DOMAIN sorted |-> Chunk("reference", sorted[i], "", <<>>, <<>>, NoId)]

CanonicalSingles(lib, form, names) ==
    LET sorted == SeqOfSet(names)
    IN [i \in DOMAIN sorted |-> Chunk("import", lib, form, <<sorted[i]>>, <<>>, NoId)]

RECURSIVE CanonicalImports(_, _)
CanonicalImports(libraries, names) ==
    IF libraries = {} THEN <<>>
    ELSE LET lib == CHOOSE l \in libraries : \A other \in libraries : l <= other
         IN CanonicalSingles(lib, "star", names[lib].star)
            \o CanonicalSingles(lib, "require", names[lib].require)
            \o CanonicalSingles(lib, "default", names[lib].default)
            \o (IF names[lib].named # {}
                THEN <<Chunk("import", lib, "named", SeqOfSet(names[lib].named), <<>>, NoId)>>
                ELSE <<>>)
            \o CanonicalImports(libraries \ {lib}, names)

BundleImportContents ==
    [lib \in {importedSymbols[i].lib : i \in DOMAIN importedSymbols} |->
        LET entry == CHOOSE e \in Range(importedSymbols) : e.lib = lib
        IN [star |-> {}, require |-> {}, default |-> {}, named |-> Range(entry.names)]]

OutputImportContents ==
    [lib \in {params.imports[i].lib : i \in DOMAIN params.imports} |->
        LET entry == CHOOSE e \in Range(params.imports) : e.lib = lib
        IN [star |-> Range(entry.starImports), require |-> Range(entry.requireImports),
            default |-> Range(entry.defaultImports), named |-> Range(entry.namedImports)]]

C10_ImportDeterminism ==
    /\ BundleDone =>
          Header(resultOutput) =
              CanonicalReferences(Range(usedTypes))
              \o CanonicalImports(DOMAIN BundleImportContents, BundleImportContents)
    /\ OutputDone =>
          Header(output) =
              CanonicalReferences(Range(params.typesReferences))
              \o CanonicalImports(DOMAIN OutputImportContents, OutputImportContents)

\* a run that met the packages, the libraries and the names of a library in
\* descending order
C10_Witness ==
    /\ BundleDone
    /\ Len(usedTypes) = 2 /\ usedTypes[1] > usedTypes[2]
    /\ Len(importedSymbols) = 2 /\ importedSymbols[1].lib > importedSymbols[2].lib
    /\ Len(importedSymbols[1].names) = 2
    /\ importedSymbols[1].names[1] > importedSymbols[1].names[2]

----------------------------------------------------------------------------
(* C11. getStatementText: the text of a class declaration, a function       *)
(* declaration or a variable statement starts with export or with declare,  *)
(* never with a bare class, abstract, function, const, let or var keyword,  *)
(* and holds declare at most once, for every combination of the modifiers   *)
(* of the statement and of the answers of the helpers.                      *)

DeclareAddedKinds == {"ClassDeclaration", "FunctionDeclaration", "VariableStatement"}

BareKeywords == {"class", "abstract", "function", "const", "let", "var"}

Occurrences(text, word) == Cardinality({i \in DOMAIN text : text[i] = word})

\* the statements of params whose text is the chunk
StatementsOf(chunk) ==
    {k \in DOMAIN params.statements : params.statements[k].id = chunk.id}

C11_StartsWithExportOrDeclare ==
    OutputDone =>
        \A i \in DOMAIN output :
            output[i].sec = "statement" =>
                \A k \in StatementsOf(output[i]) :
                    params.statements[k].node.kind \in DeclareAddedKinds =>
                        LET text == Declaration(output[i].text)
                        IN /\ text # <<>>
                           /\ Head(text) \in {"export", "declare"}
                           /\ Head(text) \notin BareKeywords
                           /\ Occurrences(text, "declare") <= 1

\* the same, but for a statement that keeps its default modifier and loses
\* its export keyword: its text starts with default
C11_ExceptKeptDefault ==
    OutputDone =>
        \A i \in DOMAIN output :
            output[i].sec = "statement" =>
                \A k \in StatementsOf(output[i]) :
                    LET s == params.statements[k]
                        text == Declaration(output[i].text)
                    IN s.node.kind \in DeclareAddedKinds =>
                          /\ text # <<>>
                          /\ Head(text) \notin BareKeywords
                          /\ Occurrences(text, "declare") <= 1
                          /\ IF s.node.def /\ ~s.shouldExport /\ ~s.stripDefault
                             THEN Head(text) = "default"
                             ELSE Head(text) \in {"export", "declare"}

====
